---------------------------- MODULE Spec2Model ----------------------------
(***************************************************************************)
(* A model of args::arger_c (include/arger.hpp): the definition registry,  *)
(* the alias index, the token scan of parse and the typed accessor.        *)
(*                                                                         *)
(* Strings are TLA+ strings.  A std::optional<T> is a sequence of length   *)
(* 0 (nullopt) or 1.  A std::function is modelled by whether it is set;    *)
(* an invocation of it is an entry of cb_log, and it returns normally.     *)
(* A pointer to an argument_s is an index into heap.  A string built by    *)
(* concatenation is the sequence of the pieces appended.                   *)
(***************************************************************************)
EXTENDS Naturals, Sequences, FiniteSets

VARIABLES
    post_help_cb_,      \* arger.hpp:213  is the post-help callback set
    error_cb_,          \* arger.hpp:214  is the error callback set
    auto_help_enable_,  \* arger.hpp:215
    unmatchd_args_,     \* arger.hpp:217
    argument_defs_,     \* arger.hpp:218  sequence of arg_def_s
    arguments_map_,     \* arger.hpp:219  alias -> pointer
    program_name_,      \* arger.hpp:220
    heap,               \* the argument_s objects allocated by add_arg
    args,               \* parse: the local vector built from argv
    i,                  \* parse: the loop index (0-based, as in the code)
    pc,                 \* "idle", "scan" while parse is in its loop, or
                        \* "crashed" when the process was killed in parse
    ret,                \* what the last finished call returned
    cb_log              \* callbacks and output of the current (or last) call

vars == <<post_help_cb_, error_cb_, auto_help_enable_, unmatchd_args_,
          argument_defs_, arguments_map_, program_name_, heap, args, i, pc,
          ret, cb_log>>

(***************************************************************************)
(* Bounds and input sets.                                                  *)
(***************************************************************************)
\* longest argv handed to parse, the program name included
MaxArgc == 3
\* parse is not called when the unmatched list could grow beyond this
MaxUnmatched == 3

\* argv[0]
ProgNames == {"prog"}

\* The strings that occur as command-line tokens after argv[0].
Tokens == {"-b", "--bool", "-h"}

\* The alias sets handed to add_argument / add_flag.
AliasSets == {{"-b", "--bool"}, {"-b"}, {"--bool", "-h"}}

\* The default values handed to add_argument: its default argument, "".
ArgDefaults == {[t |-> "string", v |-> ""]}

\* The default values handed to add_flag.
FlagDefaults == {FALSE}

\* The description handed to add_argument / add_flag.
Descriptions == {"A bool"}

\* All argv of 1 .. MaxArgc tokens: a program name, then tokens; and the
\* argv of parse(0, argv), which holds nothing.
Argvs ==
    {<<>>} \cup
    {<<p>> \o t : p \in ProgNames,
                  t \in UNION {[1..n -> Tokens] : n \in 0..(MaxArgc - 1)}}

(***************************************************************************)
(* std::string order on the strings that occur as aliases, for the         *)
(* iteration order of std::set<std::string>.                               *)
(***************************************************************************)
StringOrder == <<"--bool", "--help", "-b", "-h", "prog">>

StrRank(str) == CHOOSE k \in 1..Len(StringOrder) : StringOrder[k] = str

\* The elements of a std::set<std::string> in iteration order.
RECURSIVE SetOrder(_)
SetOrder(S) ==
    IF S = {} THEN <<>>
    ELSE LET m == CHOOSE x \in S : \A y \in S : StrRank(x) <= StrRank(y)
         IN  <<m>> \o SetOrder(S \ {m})

(***************************************************************************)
(* errors_e                                                                *)
(***************************************************************************)
DUPLICATE_DEFINITION == "DUPLICATE_DEFINITION"
MISSING_REQUIRED_ARGUMENT == "MISSING_REQUIRED_ARGUMENT"
INCORRECT_ARGUMENT_TYPE == "INCORRECT_ARGUMENT_TYPE"
EXPECTED_VALUE == "EXPECTED_VALUE"

\* An invocation of error_cb_(e, ctx); ctx is the sequence of string pieces.
ErrorCall(e, ctx) == <<"error_cb", e, ctx>>
\* An invocation of post_help_cb_().
PostHelpCall == <<"post_help_cb">>
\* The help text written to std::cout by print_help.
HelpText == <<"print_help">>

(***************************************************************************)
(* The parser object and the locals of parse, as one record.               *)
(***************************************************************************)
Self ==
    [post_help_cb_ |-> post_help_cb_, error_cb_ |-> error_cb_,
     auto_help_enable_ |-> auto_help_enable_,
     unmatchd_args_ |-> unmatchd_args_, argument_defs_ |-> argument_defs_,
     arguments_map_ |-> arguments_map_, program_name_ |-> program_name_,
     heap |-> heap, args |-> args, i |-> i, pc |-> pc, ret |-> ret,
     cb_log |-> cb_log]

Install(s) ==
    /\ post_help_cb_' = s.post_help_cb_
    /\ error_cb_' = s.error_cb_
    /\ auto_help_enable_' = s.auto_help_enable_
    /\ unmatchd_args_' = s.unmatchd_args_
    /\ argument_defs_' = s.argument_defs_
    /\ arguments_map_' = s.arguments_map_
    /\ program_name_' = s.program_name_
    /\ heap' = s.heap
    /\ args' = s.args
    /\ i' = s.i
    /\ pc' = s.pc
    /\ ret' = s.ret
    /\ cb_log' = s.cb_log

\* if (error_cb_) error_cb_(e, ctx);
report(s, e, ctx) ==
    IF s.error_cb_ THEN [s EXCEPT !.cb_log = Append(@, ErrorCall(e, ctx))]
    ELSE s

(***************************************************************************)
(* to_string(const arg_t&)                                                 *)
(***************************************************************************)
Digits == <<"0", "1", "2", "3", "4", "5", "6", "7", "8", "9">>

to_string(arg) ==
    IF arg.t = "string" THEN arg.v
    ELSE IF arg.t = "int64_t" THEN Digits[arg.v + 1]
    ELSE IF arg.t = "bool" THEN Digits[(IF arg.v THEN 1 ELSE 0) + 1]
    ELSE "unknown"

(***************************************************************************)
(* add_arg, add_argument, add_flag                                         *)
(***************************************************************************)
\* The first alias, in set order, that arguments_map_ already holds.
RECURSIVE first_registered(_, _)
first_registered(s, order) ==
    IF order = <<>> THEN <<>>
    ELSE IF Head(order) \in DOMAIN s.arguments_map_ THEN <<Head(order)>>
    ELSE first_registered(s, Tail(order))

\* add_arg allocating one cell for each alias instead of one shared cell
add_arg_cell_per_alias(s, arg, description, default_value, required, is_flag) ==
    LET order == SetOrder(arg)
        dup == first_registered(s, order)
        base == Len(s.heap)
        cell == [req_and_found |-> IF required THEN <<FALSE>> ELSE <<>>,
                 value |-> to_string(default_value),
                 is_flag |-> is_flag]
        def == [args |-> arg, description |-> description,
                default_value |-> to_string(default_value),
                allocated_arg |-> base + 1]
        ptr(a) == base + CHOOSE n \in 1..Len(order) : order[n] = a
    IN  IF dup # <<>>
        THEN [report(s, DUPLICATE_DEFINITION, <<dup[1]>>)
                EXCEPT !.ret = [op |-> "add_arg", val |-> FALSE]]
        ELSE [s EXCEPT
                !.heap = @ \o [n \in 1..Len(order) |-> cell],
                !.argument_defs_ = Append(@, def),
                !.arguments_map_ =
                    [a \in DOMAIN @ \cup arg |->
                        IF a \in arg THEN ptr(a) ELSE @[a]],
                !.ret = [op |-> "add_arg", val |-> TRUE]]

\* add_arg with the check and the insertion in one loop: the aliases before
\* the first registered one are indexed although the call fails.
add_arg_one_loop(s, arg, description, default_value, required, is_flag) ==
    LET order == SetOrder(arg)
        dup == first_registered(s, order)
        argument == Len(s.heap) + 1
        cell == [req_and_found |-> IF required THEN <<FALSE>> ELSE <<>>,
                 value |-> to_string(default_value),
                 is_flag |-> is_flag]
        def == [args |-> arg, description |-> description,
                default_value |-> to_string(default_value),
                allocated_arg |-> argument]
        before == IF dup = <<>> THEN arg
                  ELSE {a \in arg : StrRank(a) < StrRank(dup[1])}
        indexed == [s EXCEPT
                      !.heap = Append(@, cell),
                      !.arguments_map_ =
                          [a \in DOMAIN @ \cup before |->
                              IF a \in before THEN argument ELSE @[a]]]
    IN  IF dup # <<>>
        THEN [report(indexed, DUPLICATE_DEFINITION, <<dup[1]>>)
                EXCEPT !.ret = [op |-> "add_arg", val |-> FALSE]]
        ELSE [indexed EXCEPT
                !.argument_defs_ = Append(@, def),
                !.ret = [op |-> "add_arg", val |-> TRUE]]

\* add_arg without the loop that looks for an alias already registered
add_arg_unchecked(s, arg, description, default_value, required, is_flag) ==
    [s EXCEPT
        !.heap = Append(@, [req_and_found |->
                                IF required THEN <<FALSE>> ELSE <<>>,
                            value |-> to_string(default_value),
                            is_flag |-> is_flag]),
        !.argument_defs_ =
            Append(@, [args |-> arg, description |-> description,
                       default_value |-> to_string(default_value),
                       allocated_arg |-> Len(s.heap) + 1]),
        !.arguments_map_ =
            [a \in DOMAIN @ \cup arg |->
                IF a \in arg THEN Len(s.heap) + 1 ELSE @[a]],
        !.ret = [op |-> "add_arg", val |-> TRUE]]

add_arg(s, arg, description, default_value, required, is_flag) ==
    LET dup == first_registered(s, SetOrder(arg))
        argument == Len(s.heap) + 1
        cell == [req_and_found |-> IF required THEN <<FALSE>> ELSE <<>>,
                 value |-> to_string(default_value),
                 is_flag |-> is_flag]
        def == [args |-> arg, description |-> description,
                default_value |-> to_string(default_value),
                allocated_arg |-> argument]
    IN  IF dup # <<>>
        THEN [report(s, DUPLICATE_DEFINITION, <<dup[1]>>)
                EXCEPT !.ret = [op |-> "add_arg", val |-> FALSE]]
        ELSE [s EXCEPT
                !.heap = Append(@, cell),
                !.argument_defs_ = Append(@, def),
                !.arguments_map_ =
                    [a \in DOMAIN @ \cup arg |->
                        IF a \in arg THEN argument ELSE @[a]],
                !.ret = [op |-> "add_arg", val |-> TRUE]]

add_argument(s, arg, description, default_value, required) ==
    add_arg(s, arg, description, default_value, required, FALSE)

add_flag(s, arg, description, default_value, required) ==
    add_arg(s, arg, description, [t |-> "bool", v |-> default_value],
            required, TRUE)

(***************************************************************************)
(* get_arg<T>: std::stringstream ss(value); T val; ss >> val;              *)
(***************************************************************************)
\* The long that operator>> reads at the start of the text, if there is one.
long_prefix(text) ==
    IF text \in {"0", "1", "2", "3", "4", "5", "6", "7", "8", "9"}
    THEN <<CHOOSE d \in 0..9 : Digits[d + 1] = text>>
    ELSE <<>>

\* The values val can hold after ss >> val.  Extraction from an empty stream
\* fails before val is written: a std::string stays "", a bool stays
\* uninitialized and may read as either value.
extract(T, text) ==
    IF T = "string" THEN {text}
    ELSE IF text = "" THEN BOOLEAN
    ELSE LET l == long_prefix(text)
         IN  IF l = <<>> THEN {FALSE}      \* no digits: 0 is stored, failbit
             ELSE IF l[1] = 0 THEN {FALSE}
             ELSE {TRUE}                   \* 1, or out of range with failbit

\* get_arg looking the alias up with operator[], which inserts the key
get_arg_inserting(s, T, arg) ==
    IF arg \notin DOMAIN s.arguments_map_
    THEN {[s EXCEPT
             !.heap = Append(@, [req_and_found |-> <<>>, value |-> "",
                                 is_flag |-> FALSE]),
             !.arguments_map_ =
                 [a \in DOMAIN @ \cup {arg} |->
                     IF a = arg THEN Len(s.heap) + 1 ELSE @[a]],
             !.ret = [op |-> "get_arg", val |-> <<>>]]}
    ELSE {[s EXCEPT !.ret = [op |-> "get_arg", val |-> <<v>>]] :
             v \in extract(T, s.heap[s.arguments_map_[arg]].value)}

\* get_arg<T>(arg): the parser after the call, for each std::optional<T>
\* the call can return (in ret).
get_arg(s, T, arg) ==
    IF arg \notin DOMAIN s.arguments_map_
    THEN {[s EXCEPT !.ret = [op |-> "get_arg", val |-> <<>>]]}
    ELSE {[s EXCEPT !.ret = [op |-> "get_arg", val |-> <<v>>]] :
             v \in extract(T, s.heap[s.arguments_map_[arg]].value)}

get_program_name(s) == s.program_name_

get_unmatched_args(s) == s.unmatchd_args_

(***************************************************************************)
(* The helpers of parse                                                    *)
(***************************************************************************)
conditionally_mark_found(s, arg) ==
    LET p == s.arguments_map_[arg]
    IN  IF s.heap[p].req_and_found # <<>>
        THEN [s EXCEPT !.heap[p].req_and_found = <<TRUE>>]
        ELSE s

\* Returns true.
handle_flag(s, arg) ==
    conditionally_mark_found(
        [s EXCEPT !.heap[s.arguments_map_[arg]].value = "true"], arg)

\* args[idx]
At(seq, idx) == seq[idx + 1]

\* handle_argument keeping the text of an option that already has one
handle_argument_keeps_first(s) ==
    LET arg == At(s.args, s.i)
        p == s.arguments_map_[arg]
    IN  IF s.i + 1 >= Len(s.args)
        THEN [s |-> report(s, EXPECTED_VALUE, <<arg>>), ok |-> FALSE]
        ELSE LET value == IF s.heap[p].value = "" THEN At(s.args, s.i + 1)
                          ELSE s.heap[p].value
                 s1 == [s EXCEPT !.i = @ + 1, !.heap[p].value = value]
             IN  [s |-> conditionally_mark_found(s1, arg), ok |-> TRUE]

\* handle_argument undoing the parse when the value is missing
handle_argument_undoes(s) ==
    LET arg == At(s.args, s.i)
    IN  IF s.i + 1 >= Len(s.args)
        THEN [s |-> [report(s, EXPECTED_VALUE, <<arg>>) EXCEPT
                        !.unmatchd_args_ = <<>>,
                        !.program_name_ = "",
                        !.heap = [p \in 1..Len(@) |->
                                    [@[p] EXCEPT !.value = ""]]],
              ok |-> FALSE]
        ELSE LET value == At(s.args, s.i + 1)
                 s1 == [s EXCEPT !.i = @ + 1,
                                 !.heap[s.arguments_map_[arg]].value = value]
             IN  [s |-> conditionally_mark_found(s1, arg), ok |-> TRUE]

\* handle_argument marking the option found before it looks for the value
handle_argument_marks_first(s) ==
    LET arg == At(s.args, s.i)
        s0 == conditionally_mark_found(s, arg)
    IN  IF s.i + 1 >= Len(s.args)
        THEN [s |-> report(s0, EXPECTED_VALUE, <<arg>>), ok |-> FALSE]
        ELSE LET value == At(s.args, s.i + 1)
             IN  [s |-> [s0 EXCEPT !.i = @ + 1,
                            !.heap[s.arguments_map_[arg]].value = value],
                  ok |-> TRUE]

\* handle_argument reading args[idx + 1] without advancing idx
handle_argument_no_skip(s) ==
    LET arg == At(s.args, s.i)
    IN  IF s.i + 1 >= Len(s.args)
        THEN [s |-> report(s, EXPECTED_VALUE, <<arg>>), ok |-> FALSE]
        ELSE LET value == At(s.args, s.i + 1)
                 s1 == [s EXCEPT !.heap[s.arguments_map_[arg]].value = value]
             IN  [s |-> conditionally_mark_found(s1, arg), ok |-> TRUE]

\* handle_argument(args, i): the parser after the call, i included, and
\* the value returned.
handle_argument(s) ==
    LET arg == At(s.args, s.i)
    IN  IF s.i + 1 >= Len(s.args)
        THEN [s |-> report(s, EXPECTED_VALUE, <<arg>>), ok |-> FALSE]
        ELSE LET value == At(s.args, s.i + 1)
                 s1 == [s EXCEPT !.i = @ + 1,
                                 !.heap[s.arguments_map_[arg]].value = value]
             IN  [s |-> conditionally_mark_found(s1, arg), ok |-> TRUE]

print_help(s) ==
    LET s1 == [s EXCEPT !.cb_log = Append(@, HelpText)]
    IN  IF s1.post_help_cb_
        THEN [s1 EXCEPT !.cb_log = Append(@, PostHelpCall)]
        ELSE s1

\* concated += arg + " " for every alias of the definition, in set order
RECURSIVE concated(_)
concated(order) ==
    IF order = <<>> THEN <<>>
    ELSE <<Head(order), " ">> \o concated(Tail(order))

\* Is the definition required and not found
pending(s, def) ==
    /\ s.heap[def.allocated_arg].req_and_found # <<>>
    /\ ~s.heap[def.allocated_arg].req_and_found[1]

\* parse returns val: its locals are gone
parse_return(s, val) ==
    [s EXCEPT !.ret = [op |-> "parse", val |-> val], !.pc = "idle",
              !.args = <<>>, !.i = 0]

\* required_check failing only inside the branch that invokes the callback
required_check_needs_cb(s) ==
    LET missing == {k \in 1..Len(s.argument_defs_) :
                        pending(s, s.argument_defs_[k])}
    IN  IF missing = {} \/ ~s.error_cb_ THEN parse_return(s, TRUE)
        ELSE LET k == CHOOSE m \in missing : \A n \in missing : m <= n
             IN  parse_return(
                     report(s, MISSING_REQUIRED_ARGUMENT,
                            concated(SetOrder(s.argument_defs_[k].args))),
                     FALSE)

\* required_check reporting every pending definition before it fails
RECURSIVE report_each(_, _)
report_each(s, order) ==
    IF order = <<>> THEN s
    ELSE report_each(
             report(s, MISSING_REQUIRED_ARGUMENT,
                    concated(SetOrder(Head(order).args))),
             Tail(order))

required_check_reports_all(s) ==
    LET missing == SelectSeq(s.argument_defs_, LAMBDA def : pending(s, def))
    IN  IF missing = <<>> THEN parse_return(s, TRUE)
        ELSE parse_return(report_each(s, missing), FALSE)

\* required_check reporting the last pending definition, not the first
required_check_last(s) ==
    LET missing == {k \in 1..Len(s.argument_defs_) :
                        pending(s, s.argument_defs_[k])}
    IN  IF missing = {} THEN parse_return(s, TRUE)
        ELSE LET k == CHOOSE m \in missing : \A n \in missing : m >= n
             IN  parse_return(
                     report(s, MISSING_REQUIRED_ARGUMENT,
                            concated(SetOrder(s.argument_defs_[k].args))),
                     FALSE)

\* The loop over argument_defs_ after the scan (lines 182-196).
required_check(s) ==
    LET missing == {k \in 1..Len(s.argument_defs_) :
                        pending(s, s.argument_defs_[k])}
    IN  IF missing = {} THEN parse_return(s, TRUE)
        ELSE LET k == CHOOSE m \in missing : \A n \in missing : m <= n
             IN  parse_return(
                     report(s, MISSING_REQUIRED_ARGUMENT,
                            concated(SetOrder(s.argument_defs_[k].args))),
                     FALSE)

\* is_help without the test of auto_help_enable_
is_help_any_mode(s) ==
    At(s.args, s.i) = "-h" \/ At(s.args, s.i) = "--help"

\* auto_help_enable_ && (args[i] == "-h" || args[i] == "--help")
is_help(s) ==
    s.auto_help_enable_ /\ (At(s.args, s.i) = "-h" \/ At(s.args, s.i) = "--help")

\* parse_begin setting every required cell back to not found
parse_begin_resetting(s, argv) ==
    IF argv = <<>> THEN [s EXCEPT !.args = argv, !.pc = "crashed"]
    ELSE
    [s EXCEPT !.args = argv, !.program_name_ = At(argv, 0), !.i = 0,
              !.pc = "scan",
              !.heap = [p \in 1..Len(@) |->
                          IF @[p].req_and_found = <<>> THEN @[p]
                          ELSE [@[p] EXCEPT !.req_and_found = <<FALSE>>]]]

\* parse up to its loop (lines 158-160).  With argc = 0 the vector args is
\* empty and args[0] designates no element: its storage pointer is null, the
\* copy into program_name_ reads through it and the process is killed by
\* SIGSEGV (observed with g++ 12 at -O0 and -O2); nothing after it runs.
parse_begin(s, argv) ==
    IF argv = <<>> THEN [s EXCEPT !.args = argv, !.pc = "crashed"]
    ELSE [s EXCEPT !.args = argv, !.program_name_ = At(argv, 0), !.i = 0,
                   !.pc = "scan"]

\* loop_body ending the parse successfully after a help token
loop_body_help_returns(s) ==
    IF is_help(s)
    THEN LET s1 == print_help(s)
             s2 == IF s1.post_help_cb_
                   THEN [s1 EXCEPT !.cb_log = Append(@, PostHelpCall)]
                   ELSE s1
         IN  parse_return(s2, TRUE)
    ELSE IF At(s.args, s.i) \notin DOMAIN s.arguments_map_
    THEN [s EXCEPT !.unmatchd_args_ = Append(@, At(s.args, s.i)),
                   !.i = @ + 1]
    ELSE IF s.heap[s.arguments_map_[At(s.args, s.i)]].is_flag
    THEN [handle_flag(s, At(s.args, s.i)) EXCEPT !.i = @ + 1]
    ELSE LET r == handle_argument(s)
         IN  IF r.ok THEN [r.s EXCEPT !.i = @ + 1]
             ELSE parse_return(r.s, FALSE)

\* loop_body failing the parse at a token that matches no alias
loop_body_rejects_unknown(s) ==
    IF is_help(s)
    THEN LET s1 == print_help(s)
             s2 == IF s1.post_help_cb_
                   THEN [s1 EXCEPT !.cb_log = Append(@, PostHelpCall)]
                   ELSE s1
         IN  [s2 EXCEPT !.i = @ + 1]
    ELSE IF At(s.args, s.i) \notin DOMAIN s.arguments_map_
    THEN IF s.i = 0
         THEN [s EXCEPT !.unmatchd_args_ = Append(@, At(s.args, s.i)),
                        !.i = @ + 1]
         ELSE parse_return(
                  [s EXCEPT !.unmatchd_args_ = Append(@, At(s.args, s.i))],
                  FALSE)
    ELSE IF s.heap[s.arguments_map_[At(s.args, s.i)]].is_flag
    THEN [handle_flag(s, At(s.args, s.i)) EXCEPT !.i = @ + 1]
    ELSE LET r == handle_argument(s)
         IN  IF r.ok THEN [r.s EXCEPT !.i = @ + 1]
             ELSE parse_return(r.s, FALSE)

\* loop_body putting an unmatched token in front of the list
loop_body_prepends(s) ==
    IF is_help(s)
    THEN LET s1 == print_help(s)
             s2 == IF s1.post_help_cb_
                   THEN [s1 EXCEPT !.cb_log = Append(@, PostHelpCall)]
                   ELSE s1
         IN  [s2 EXCEPT !.i = @ + 1]
    ELSE IF At(s.args, s.i) \notin DOMAIN s.arguments_map_
    THEN [s EXCEPT !.unmatchd_args_ = <<At(s.args, s.i)>> \o @,
                   !.i = @ + 1]
    ELSE IF s.heap[s.arguments_map_[At(s.args, s.i)]].is_flag
    THEN [handle_flag(s, At(s.args, s.i)) EXCEPT !.i = @ + 1]
    ELSE LET r == handle_argument(s)
         IN  IF r.ok THEN [r.s EXCEPT !.i = @ + 1]
             ELSE parse_return(r.s, FALSE)

\* One iteration of the loop of parse, its ++i included (lines 161-180).
loop_body(s) ==
    IF is_help(s)
    THEN LET s1 == print_help(s)
             s2 == IF s1.post_help_cb_
                   THEN [s1 EXCEPT !.cb_log = Append(@, PostHelpCall)]
                   ELSE s1
         IN  [s2 EXCEPT !.i = @ + 1]
    ELSE IF At(s.args, s.i) \notin DOMAIN s.arguments_map_
    THEN [s EXCEPT !.unmatchd_args_ = Append(@, At(s.args, s.i)),
                   !.i = @ + 1]
    ELSE IF s.heap[s.arguments_map_[At(s.args, s.i)]].is_flag
    THEN [handle_flag(s, At(s.args, s.i)) EXCEPT !.i = @ + 1]
    ELSE LET r == handle_argument(s)
         IN  IF r.ok THEN [r.s EXCEPT !.i = @ + 1]
             ELSE parse_return(r.s, FALSE)

\* parse from its loop on, to its return
RECURSIVE parse_run(_)
parse_run(s) ==
    IF s.pc # "scan" THEN s
    ELSE IF s.i < Len(s.args) THEN parse_run(loop_body(s))
    ELSE required_check(s)

\* parse(argc, argv), from the call to the return (lines 157-197)
parse(s, argv) == parse_run(parse_begin(s, argv))

(***************************************************************************)
(* The state after construction: arger_c(post_help_cb), whose argument     *)
(* may be an empty std::function.                                          *)
(***************************************************************************)
NoRet == [op |-> "void", val |-> FALSE]

Init ==
    /\ post_help_cb_ \in BOOLEAN
    /\ error_cb_ = FALSE
    /\ auto_help_enable_ = TRUE
    /\ unmatchd_args_ = <<>>
    /\ argument_defs_ = <<>>
    /\ arguments_map_ = <<>>
    /\ program_name_ = ""
    /\ heap = <<>>
    /\ args = <<>>
    /\ i = 0
    /\ pc = "idle"
    /\ ret = NoRet
    /\ cb_log = <<>>

\* A call of the public interface starts: nothing of the last call is left.
enter(s) == [s EXCEPT !.ret = NoRet, !.cb_log = <<>>]

(***************************************************************************)
(* The public operations.  The parser is used by one thread: no call       *)
(* starts while parse is in its loop, and none after the process was       *)
(* killed.                                                                 *)
(***************************************************************************)
SetErrorCb ==
    /\ pc = "idle"
    /\ \E cb \in BOOLEAN : Install([enter(Self) EXCEPT !.error_cb_ = cb])

SetAutoHelp ==
    /\ pc = "idle"
    /\ \E enable \in BOOLEAN :
          Install([enter(Self) EXCEPT !.auto_help_enable_ = enable])

AddArgument ==
    /\ pc = "idle"
    /\ \E arg \in AliasSets, d \in Descriptions, dv \in ArgDefaults,
          required \in BOOLEAN :
          Install(add_argument(enter(Self), arg, d, dv, required))

AddFlag ==
    /\ pc = "idle"
    /\ \E arg \in AliasSets, d \in Descriptions, dv \in FlagDefaults,
          required \in BOOLEAN :
          Install(add_flag(enter(Self), arg, d, dv, required))

GetArg ==
    /\ pc = "idle"
    /\ \E T \in {"bool", "string"}, arg \in Tokens :
          \E s \in get_arg(enter(Self), T, arg) : Install(s)

\* parse(argc, argv) up to the loop.
ParseBegin ==
    /\ pc = "idle"
    /\ \E argv \in Argvs :
          /\ Len(unmatchd_args_) + Len(argv) <= MaxUnmatched
          /\ Install(parse_begin(enter(Self), argv))

\* The token the loop of parse is at
InLoop == pc = "scan" /\ i < Len(args)

AtHelp == InLoop /\ is_help(Self)

AtUnmatched ==
    InLoop /\ ~is_help(Self) /\ At(args, i) \notin DOMAIN arguments_map_

AtFlag ==
    /\ InLoop /\ ~is_help(Self)
    /\ At(args, i) \in DOMAIN arguments_map_
    /\ heap[arguments_map_[At(args, i)]].is_flag

AtArgument ==
    /\ InLoop /\ ~is_help(Self)
    /\ At(args, i) \in DOMAIN arguments_map_
    /\ ~heap[arguments_map_[At(args, i)]].is_flag

\* One iteration of the loop on a help token: lines 164-170.
ParseHelp == AtHelp /\ Install(loop_body(Self))

\* One iteration on a token arguments_map_ does not hold: lines 172-175.
ParseUnmatched == AtUnmatched /\ Install(loop_body(Self))

\* One iteration on an alias of a flag: lines 176-180.
ParseFlag == AtFlag /\ Install(loop_body(Self))

\* One iteration on an alias of an option: lines 176-180.
ParseArgument == AtArgument /\ Install(loop_body(Self))

\* The loop has ended: the check of the required definitions, lines 182-196.
ParseRequired ==
    /\ pc = "scan" /\ i >= Len(args)
    /\ Install(required_check(Self))

Next ==
    \/ SetErrorCb
    \/ SetAutoHelp
    \/ AddArgument
    \/ AddFlag
    \/ GetArg
    \/ ParseBegin
    \/ ParseHelp
    \/ ParseUnmatched
    \/ ParseFlag
    \/ ParseArgument
    \/ ParseRequired

Spec == Init /\ [][Next]_vars

(***************************************************************************)
(* Vocabulary of the properties.                                           *)
(***************************************************************************)
\* The cell an alias indexes
CellOf(s, a) == s.heap[s.arguments_map_[a]]

\* The invocations of error_cb_ among the entries of a log
ErrorCalls(log) == SelectSeq(log, LAMBDA e : e[1] = "error_cb")

\* The parser after each call add_argument(arg, ...) or add_flag(arg, ...)
\* that can be made in the current state.
AddCalls(arg) ==
    {add_argument(enter(Self), arg, d, dv, required) :
        d \in Descriptions, dv \in ArgDefaults, required \in BOOLEAN}
    \cup
    {add_flag(enter(Self), arg, d, dv, required) :
        d \in Descriptions, dv \in FlagDefaults, required \in BOOLEAN}

\* The fields of the parser other than ret and cb_log
Object(s) ==
    <<s.post_help_cb_, s.error_cb_, s.auto_help_enable_, s.unmatchd_args_,
      s.argument_defs_, s.arguments_map_, s.program_name_, s.heap, s.args,
      s.i, s.pc>>

(***************************************************************************)
(* C1.  A registration whose alias set holds an alias that is already      *)
(* registered returns false, invokes the error callback (if set) once,     *)
(* with DUPLICATE_DEFINITION and an alias that was already registered,     *)
(* and leaves the registry, the alias index and every cell as they were:   *)
(* no alias of the rejected set becomes a key of the index.                *)
(***************************************************************************)
C1_DuplicateIsAtomic ==
    pc = "idle" =>
        \A arg \in AliasSets :
            arg \cap DOMAIN arguments_map_ # {} =>
                \A r \in AddCalls(arg) :
                    /\ r.ret = [op |-> "add_arg", val |-> FALSE]
                    /\ Object(r) = Object(Self)
                    /\ \A a \in arg \ DOMAIN arguments_map_ :
                          a \notin DOMAIN r.arguments_map_
                    /\ IF error_cb_
                       THEN \E a \in arg \cap DOMAIN arguments_map_ :
                               r.cb_log =
                                 <<ErrorCall(DUPLICATE_DEFINITION, <<a>>)>>
                       ELSE r.cb_log = <<>>

\* A registration of {"-b", "--bool"} or {"-b"} was rejected for "-b" after
\* a parse had written the cell of "-b"; "--bool" is not registered.
C1_Witness ==
    /\ pc = "idle"
    /\ ret = [op |-> "add_arg", val |-> FALSE]
    /\ cb_log = <<ErrorCall(DUPLICATE_DEFINITION, <<"-b">>)>>
    /\ "-b" \in DOMAIN arguments_map_
    /\ "--bool" \notin DOMAIN arguments_map_
    /\ CellOf(Self, "-b").value = "true"

(***************************************************************************)
(* How the scan of parse treats each position of an argv, given the alias  *)
(* index and the auto-help switch of s (neither changes during a parse):   *)
(* "help", "unmatched", "flag", "option" followed by its "value", or       *)
(* "novalue" for an option alias that is the last token, where the scan    *)
(* ends.                                                                   *)
(***************************************************************************)
RECURSIVE ScanKinds(_, _, _)
ScanKinds(s, argv, idx) ==
    IF idx >= Len(argv) THEN <<>>
    ELSE LET tok == At(argv, idx)
         IN  IF s.auto_help_enable_ /\ tok \in {"-h", "--help"}
             THEN <<"help">> \o ScanKinds(s, argv, idx + 1)
             ELSE IF tok \notin DOMAIN s.arguments_map_
             THEN <<"unmatched">> \o ScanKinds(s, argv, idx + 1)
             ELSE IF CellOf(s, tok).is_flag
             THEN <<"flag">> \o ScanKinds(s, argv, idx + 1)
             ELSE IF idx + 1 >= Len(argv) THEN <<"novalue">>
             ELSE <<"option", "value">> \o ScanKinds(s, argv, idx + 2)

Kinds(s, argv) == ScanKinds(s, argv, 0)

\* The positions (1-based) at which the scan matches an alias of def
MatchedAt(s, argv, def) ==
    {k \in 1..Len(Kinds(s, argv)) :
        Kinds(s, argv)[k] \in {"flag", "option"} /\ argv[k] \in def.args}

\* The std::optional<T> values get_arg<T>(a) can return in s
GetArgValues(s, T, a) == {r.ret.val : r \in get_arg(s, T, a)}

(***************************************************************************)
(* C2.  For a flag registered with default false, during any parse: an     *)
(* iteration that matches one of its aliases advances the scan by exactly  *)
(* one token and leaves get_arg<bool> of each of its aliases true; while   *)
(* none of its aliases has been matched, get_arg<bool> of each of them is  *)
(* false; and the parse returns true if the scan ends with no required     *)
(* definition pending.                                                     *)
(***************************************************************************)
C2_FlagReadsBackTrue ==
    [][pc = "scan" =>
        /\ \A k \in 1..Len(argument_defs_) :
              LET def == argument_defs_[k]
                  cell == heap[def.allocated_arg]
                  matches == AtFlag /\ At(args, i) \in def.args
              IN  (cell.is_flag /\ def.default_value = "0") =>
                      /\ matches =>
                            /\ i' = i + 1
                            /\ \A a \in def.args :
                                  GetArgValues(Self', "bool", a) = {<<TRUE>>}
                      /\ (~matches /\ cell.value = def.default_value) =>
                            \A a \in def.args :
                                GetArgValues(Self', "bool", a) = {<<FALSE>>}
        /\ (/\ i >= Len(args)
            /\ \A k \in 1..Len(argument_defs_) :
                  ~pending(Self, argument_defs_[k]))
              => ret' = [op |-> "parse", val |-> TRUE]]_vars

(***************************************************************************)
(* C3.  The required definitions that the parse of a freshly configured    *)
(* parser does not match.                                                  *)
(***************************************************************************)
\* parse has been called and is about to enter its loop: args is its argv,
\* and the parser is otherwise as it was when parse was called.
AtCall == pc = "scan" /\ i = 0

\* The parser is as add_argument and add_flag leave it: every cell holds its
\* default, no required definition is found, nothing is unmatched.
FreshlyConfigured(s) ==
    /\ s.unmatchd_args_ = <<>>
    /\ \A k \in 1..Len(s.argument_defs_) :
          LET def == s.argument_defs_[k]
          IN  /\ s.heap[def.allocated_arg].value = def.default_value
              /\ s.heap[def.allocated_arg].req_and_found # <<TRUE>>

Required(s, def) == s.heap[def.allocated_arg].req_and_found # <<>>

\* No token of argv outside the consumed value positions is an alias of def
NoAliasOutsideValues(s, argv, def) ==
    \A k \in 1..Len(argv) :
        argv[k] \in def.args =>
            k <= Len(Kinds(s, argv)) /\ Kinds(s, argv)[k] = "value"

\* The invocation of the error callback for a missing definition
MissingCall(def) ==
    ErrorCall(MISSING_REQUIRED_ARGUMENT, concated(SetOrder(def.args)))

IsMissingCall(e) == e[1] = "error_cb" /\ e[2] = MISSING_REQUIRED_ARGUMENT

Entries(log) == {log[k] : k \in 1..Len(log)}

AllRequiredMatched(s, argv) ==
    \A k \in 1..Len(s.argument_defs_) :
        Required(s, s.argument_defs_[k]) =>
            MatchedAt(s, argv, s.argument_defs_[k]) # {}

\* The claim as stated, for the parse of argv that s is about to run
C3_AsStated(s, argv) ==
    LET f == parse_run(s)
    IN  /\ \A k \in 1..Len(s.argument_defs_) :
              LET def == s.argument_defs_[k]
              IN  (Required(s, def) /\ NoAliasOutsideValues(s, argv, def)) =>
                      /\ f.ret = [op |-> "parse", val |-> FALSE]
                      /\ s.error_cb_ => MissingCall(def) \in Entries(f.cb_log)
        /\ AllRequiredMatched(s, argv) =>
              \A e \in Entries(f.cb_log) : ~IsMissingCall(e)

\* The claim as stated: on a freshly configured parser, every argv
\* that holds no alias of some required definition outside the consumed
\* value positions makes parse return false and invoke the error callback
\* (if set) with MISSING_REQUIRED_ARGUMENT and that definition's aliases.
C3_MissingAlwaysReported ==
    (AtCall /\ FreshlyConfigured(Self)) => C3_AsStated(Self, args)

\* The earliest registered required definition that the scan of argv does
\* not match, as a sequence of length 0 or 1
FirstUnmatchedRequired(s, argv) ==
    LET U == {k \in 1..Len(s.argument_defs_) :
                 /\ Required(s, s.argument_defs_[k])
                 /\ MatchedAt(s, argv, s.argument_defs_[k]) = {}}
    IN  IF U = {} THEN <<>>
        ELSE <<s.argument_defs_[CHOOSE m \in U : \A n \in U : m <= n]>>

C3_AsAmended(s, argv) ==
    LET f == parse_run(s)
        aborted == Len(Kinds(s, argv)) > 0
                   /\ Kinds(s, argv)[Len(Kinds(s, argv))] = "novalue"
        first == FirstUnmatchedRequired(s, argv)
    IN  /\ \A k \in 1..Len(s.argument_defs_) :
              LET def == s.argument_defs_[k]
              IN  (Required(s, def) /\ NoAliasOutsideValues(s, argv, def)) =>
                      /\ f.ret = [op |-> "parse", val |-> FALSE]
                      /\ first # <<>>
                      /\ (s.error_cb_ /\ ~aborted) =>
                            ErrorCalls(f.cb_log) = <<MissingCall(first[1])>>
        /\ AllRequiredMatched(s, argv) =>
              \A e \in Entries(f.cb_log) : ~IsMissingCall(e)

(***************************************************************************)
(* C3, amended.  On a freshly configured parser, every argv that           *)
(* holds no alias of some required definition outside the consumed value   *)
(* positions makes parse return false; unless the scan ended at an option  *)
(* alias without a value, the error callback (if set) is invoked exactly   *)
(* once, with MISSING_REQUIRED_ARGUMENT and the aliases, each followed by  *)
(* a space, of the earliest registered required definition the scan did    *)
(* not match.  When the scan matches every required definition, the        *)
(* callback is not invoked with MISSING_REQUIRED_ARGUMENT.                 *)
(***************************************************************************)
C3_FirstMissingReported ==
    (AtCall /\ FreshlyConfigured(Self)) => C3_AsAmended(Self, args)

\* The first parse returned false and reported the first of two pending
\* required definitions.
C3_Witness ==
    /\ pc = "idle"
    /\ ret = [op |-> "parse", val |-> FALSE]
    /\ unmatchd_args_ = <<"prog">>
    /\ Len(argument_defs_) = 2
    /\ \A k \in 1..2 : pending(Self, argument_defs_[k])
    /\ cb_log = <<MissingCall(argument_defs_[1])>>

(***************************************************************************)
(* C4.  When the scan is at an option alias that is the last token, the    *)
(* iteration ends the parse: parse returns false, the error callback (if   *)
(* set) has been invoked exactly once in this parse, with EXPECTED_VALUE   *)
(* and the option token, the check of the required definitions is not run  *)
(* (no MISSING_REQUIRED_ARGUMENT), and no cell, the option's included, is  *)
(* changed by the iteration.                                               *)
(***************************************************************************)
C4_ExpectedValueAborts ==
    (AtArgument /\ i + 1 >= Len(args)) =>
        LET f == loop_body(Self)
        IN  /\ f.pc = "idle"
            /\ f.ret = [op |-> "parse", val |-> FALSE]
            /\ f.heap = heap
            /\ f.unmatchd_args_ = unmatchd_args_
            /\ ErrorCalls(f.cb_log) =
                  IF error_cb_
                  THEN <<ErrorCall(EXPECTED_VALUE, <<At(args, i)>>)>>
                  ELSE <<>>

\* parse returned false at the option "-b" without a value, while "-b" is
\* required and still pending, and only EXPECTED_VALUE was reported.
C4_Witness ==
    /\ pc = "idle"
    /\ ret = [op |-> "parse", val |-> FALSE]
    /\ cb_log = <<ErrorCall(EXPECTED_VALUE, <<"-b">>)>>
    /\ "-b" \in DOMAIN arguments_map_
    /\ CellOf(Self, "-b") =
          [req_and_found |-> <<FALSE>>, value |-> "", is_flag |-> FALSE]

(***************************************************************************)
(* C5.  When the scan is at an option alias that has a following token,    *)
(* the iteration stores that token verbatim as the option's text, marks    *)
(* the option found if it is required, and moves the scan to the token     *)
(* after the value: whatever the value token is (an alias of a flag, of    *)
(* another option or of the same option, a help token), no other cell      *)
(* changes, nothing is written or called back, and the unmatched list      *)
(* stays as it is.                                                         *)
(***************************************************************************)
C5_ValueIsConsumedVerbatim ==
    (AtArgument /\ i + 1 < Len(args)) =>
        LET f == loop_body(Self)
            p == arguments_map_[At(args, i)]
        IN  /\ f.pc = "scan" /\ f.i = i + 2 /\ f.args = args
            /\ f.heap =
                  [heap EXCEPT ![p] =
                      [req_and_found |->
                          IF heap[p].req_and_found = <<>> THEN <<>>
                          ELSE <<TRUE>>,
                       value |-> At(args, i + 1),
                       is_flag |-> FALSE]]
            /\ f.unmatchd_args_ = unmatchd_args_
            /\ f.cb_log = cb_log
            /\ f.ret = ret

\* With auto-help on and "-h" registered, the option "-b" has consumed the
\* token "-h": no help was written, the cell of "-h" is untouched and only
\* the program name is unmatched.
C5_Witness ==
    /\ pc = "scan" /\ i = 3
    /\ args = <<"prog", "-b", "-h">>
    /\ auto_help_enable_ /\ post_help_cb_
    /\ "-h" \in DOMAIN arguments_map_ /\ "-b" \in DOMAIN arguments_map_
    /\ CellOf(Self, "-b").value = "-h"
    /\ CellOf(Self, "-h").value = "" /\ CellOf(Self, "-h").req_and_found = <<FALSE>>
    /\ cb_log = <<>>
    /\ unmatchd_args_ = <<"prog">>

(***************************************************************************)
(* C6.  The iteration of the scan on the program name (index 0) changes    *)
(* nothing but the loop index: the program name is not appended to the     *)
(* unmatched list and no cell changes.                                     *)
(***************************************************************************)
C6_ProgramNameIsSkipped ==
    [][(pc = "scan" /\ i = 0 /\ i < Len(args)) =>
          /\ unmatchd_args_' = unmatchd_args_
          /\ heap' = heap]_vars

(***************************************************************************)
(* C7.  The tokens a parse appends to the unmatched list are the tokens    *)
(* its scan finds at unmatched positions, once per occurrence and in the   *)
(* order of the input: no token consumed as a value, matched as a flag or  *)
(* option alias, or handled as a help token is appended.                   *)
(***************************************************************************)
\* The tokens of argv at the positions from idx on that the scan treats as
\* unmatched, in input order
RECURSIVE UnmatchedFrom(_, _, _)
UnmatchedFrom(s, argv, idx) ==
    IF idx > Len(Kinds(s, argv)) THEN <<>>
    ELSE (IF Kinds(s, argv)[idx] = "unmatched" THEN <<argv[idx]>> ELSE <<>>)
         \o UnmatchedFrom(s, argv, idx + 1)

C7_UnmatchedKeepInputOrder ==
    AtCall =>
        parse_run(Self).unmatchd_args_ =
            unmatchd_args_ \o UnmatchedFrom(Self, args, 1)

\* The scan of ["prog", "-b", "--bool"] is over: the flag "-b" was matched
\* between two unmatched tokens, which are listed in input order.
C7_Witness ==
    /\ pc = "scan" /\ i = 3
    /\ args = <<"prog", "-b", "--bool">>
    /\ "-b" \in DOMAIN arguments_map_
    /\ CellOf(Self, "-b").is_flag /\ CellOf(Self, "-b").value = "true"
    /\ unmatchd_args_ = <<"prog", "--bool">>

(***************************************************************************)
(* C8.  The aliases of one definition are interchangeable.                 *)
(***************************************************************************)
\* get_arg<T> reads the same for any two aliases of one definition: the
\* same set of values it can return (one value, unless the text is empty
\* and T is bool, where the value read is indeterminate).
SameReadings(s) ==
    \A k \in 1..Len(s.argument_defs_) :
        \A a1, a2 \in s.argument_defs_[k].args : \A T \in {"bool", "string"} :
            GetArgValues(s, T, a1) = GetArgValues(s, T, a2)

\* The positions (1-based) of argv where the scan finds a registered alias
FoundAt(s, argv) ==
    {k \in 1..Len(Kinds(s, argv)) :
        Kinds(s, argv)[k] \in {"flag", "option", "novalue"}}

\* For the parse that s is about to run: putting alias a2 in place of the
\* alias the scan finds at position k gives the same return value, the same
\* stored texts and the same required_and_found states.
SameParse(s, k, a2) ==
    LET f1 == parse_run(s)
        f2 == parse_run([s EXCEPT !.args[k] = a2])
    IN  f1.ret = f2.ret /\ f1.heap = f2.heap

\* Is a the token that auto-help intercepts
Intercepted(s, a) == s.auto_help_enable_ /\ a \in {"-h", "--help"}

\* The claim as stated: any alias of the same alias set can take the place.
C8_AliasesInterchangeable ==
    /\ SameReadings(Self)
    /\ AtCall =>
          \A k \in FoundAt(Self, args) : \A d \in 1..Len(argument_defs_) :
              args[k] \in argument_defs_[d].args =>
                  \A a2 \in argument_defs_[d].args : SameParse(Self, k, a2)

(***************************************************************************)
(* C8, amended.  In every state get_arg<T> reads the same through any two  *)
(* aliases of one definition, and in a parse an alias that the scan finds  *)
(* can be replaced by any alias of the same definition, other than -h and  *)
(* --help while auto-help is enabled, without changing the return value,   *)
(* any stored text or any required_and_found state.                        *)
(***************************************************************************)
C8_AliasesShareOneCell ==
    /\ SameReadings(Self)
    /\ AtCall =>
          \A k \in FoundAt(Self, args) : \A d \in 1..Len(argument_defs_) :
              args[k] \in argument_defs_[d].args =>
                  \A a2 \in argument_defs_[d].args :
                      ~Intercepted(Self, a2) => SameParse(Self, k, a2)

\* The flag {"-b", "--bool"} was matched through "--bool"; "-b" indexes the
\* same cell, which holds the text written.
C8_Witness ==
    /\ pc = "scan" /\ i = 2
    /\ args = <<"prog", "--bool">>
    /\ {"-b", "--bool"} \subseteq DOMAIN arguments_map_
    /\ arguments_map_["-b"] = arguments_map_["--bool"]
    /\ CellOf(Self, "-b").value = "true"
    /\ CellOf(Self, "-b").req_and_found = <<TRUE>>

(***************************************************************************)
(* C9.  After a parse call, get_unmatched_args() returns the unmatched     *)
(* tokens of that call only: the tokens that earlier parse calls left      *)
(* unmatched are not part of the result.                                   *)
(***************************************************************************)
C9_UnmatchedOfLastParseOnly ==
    AtCall =>
        get_unmatched_args(parse_run(Self)) = UnmatchedFrom(Self, args, 1)

(***************************************************************************)
(* C10.  get_arg<T>(alias) returns nullopt exactly when alias is not a key *)
(* of arguments_map_ and a value otherwise, and changes nothing: no key is *)
(* added to arguments_map_ and no cell is written, so that a token that    *)
(* was queried and never registered is still unmatched in a later parse.   *)
(***************************************************************************)
C10_GetArgIsReadOnly ==
    pc = "idle" =>
        \A T \in {"bool", "string"}, arg \in Tokens :
            \A r \in get_arg(enter(Self), T, arg) :
                /\ r.ret.op = "get_arg"
                /\ (r.ret.val = <<>>) <=> (arg \notin DOMAIN arguments_map_)
                /\ Len(r.ret.val) = IF arg \in DOMAIN arguments_map_
                                    THEN 1 ELSE 0
                /\ Object(r) = Object(Self)
                /\ (arg \notin DOMAIN arguments_map_
                      /\ ~Intercepted(r, arg)) =>
                        /\ Kinds(r, <<"prog", arg>>)[2] = "unmatched"
                        /\ parse(r, <<"prog", arg>>).unmatchd_args_ =
                              unmatchd_args_ \o <<"prog", arg>>

\* get_arg of the unregistered "--bool" has returned nullopt on a parser
\* where "-b" is registered, and "--bool" is still not a key.
C10_Witness ==
    /\ pc = "idle"
    /\ ret = [op |-> "get_arg", val |-> <<>>]
    /\ "-b" \in DOMAIN arguments_map_
    /\ "--bool" \notin DOMAIN arguments_map_
    /\ Len(heap) = 1

(***************************************************************************)
(* C11.  The tokens -h and --help are intercepted exactly when auto-help   *)
(* is enabled.  At a scanned (non-value) position, with auto-help enabled  *)
(* the iteration writes the help text, looks nothing up in arguments_map_  *)
(* (no cell changes, even if the token is a registered alias), appends     *)
(* nothing to the unmatched list and moves to the next token; with         *)
(* auto-help disabled it writes no help text, invokes no post-help         *)
(* callback and handles the token like any other: an unregistered token is *)
(* appended to the unmatched list, a flag alias has "true" stored, an      *)
(* option alias consumes the following token or ends the parse.            *)
(***************************************************************************)
HelpTokens == {"-h", "--help"}

\* The entries a step from s to f adds to cb_log
NewEntries(s, f) == SubSeq(f.cb_log, Len(s.cb_log) + 1, Len(f.cb_log))

\* s is in the loop of parse at a help token; f is s after the iteration
HelpTokenHandling(s) ==
    LET f == loop_body(s)
        tok == At(s.args, s.i)
    IN  IF s.auto_help_enable_
        THEN /\ f.pc = "scan" /\ f.i = s.i + 1
             /\ f.heap = s.heap
             /\ f.unmatchd_args_ = s.unmatchd_args_
             /\ NewEntries(s, f) # <<>>
             /\ NewEntries(s, f)[1] = HelpText
        ELSE /\ HelpText \notin Entries(NewEntries(s, f))
             /\ PostHelpCall \notin Entries(NewEntries(s, f))
             /\ IF tok \notin DOMAIN s.arguments_map_
                THEN /\ f.unmatchd_args_ = Append(s.unmatchd_args_, tok)
                     /\ f.heap = s.heap /\ f.i = s.i + 1
                ELSE /\ f.unmatchd_args_ = s.unmatchd_args_
                     /\ IF CellOf(s, tok).is_flag
                        THEN CellOf(f, tok).value = "true" /\ f.i = s.i + 1
                        ELSE IF s.i + 1 < Len(s.args)
                        THEN /\ CellOf(f, tok).value = At(s.args, s.i + 1)
                             /\ f.i = s.i + 2
                        ELSE /\ f.ret = [op |-> "parse", val |-> FALSE]
                             /\ f.heap = s.heap

\* Checked in every state of the scan, with each help token in the place of
\* the token the scan is at.
C11_HelpInterceptedIffAutoHelp ==
    InLoop =>
        \A tok \in HelpTokens :
            HelpTokenHandling(
                [Self EXCEPT !.args[i + 1] = tok,
                             !.program_name_ = IF i = 0 THEN tok ELSE @])

\* Auto-help is disabled and "-h", an alias of a flag, was matched by the
\* scan: "true" is stored, nothing was written or called, and only the
\* program name is unmatched.
C11_Witness ==
    /\ pc = "scan" /\ i = 2
    /\ args = <<"prog", "-h">>
    /\ ~auto_help_enable_ /\ post_help_cb_
    /\ "-h" \in DOMAIN arguments_map_
    /\ CellOf(Self, "-h").is_flag /\ CellOf(Self, "-h").value = "true"
    /\ cb_log = <<>>
    /\ unmatchd_args_ = <<"prog">>

(***************************************************************************)
(* C12.  With auto-help enabled and a post-help callback set, during a     *)
(* parse the post-help callback has been invoked exactly once for each     *)
(* help token the scan has passed, each time after the help text for that  *)
(* token was written: the help output and post-help invocations of the     *)
(* parse so far are <help text, callback> once per help token passed, and  *)
(* none if no help token was passed.                                       *)
(***************************************************************************)
\* The number of help tokens among the first n positions of the scan
HelpTokensPassed(s, n) ==
    Cardinality({k \in 1..n : Kinds(s, s.args)[k] = "help"})

\* The help texts and post-help invocations of a log, in order
HelpEntries(log) ==
    SelectSeq(log, LAMBDA e : e = HelpText \/ e = PostHelpCall)

\* Help text, then one invocation of the callback: k times
OncePerHelpToken(k) ==
    [n \in 1..(2 * k) |-> IF n % 2 = 1 THEN HelpText ELSE PostHelpCall]

C12_PostHelpOncePerHelpToken ==
    (pc = "scan" /\ auto_help_enable_ /\ post_help_cb_) =>
        HelpEntries(cb_log) = OncePerHelpToken(HelpTokensPassed(Self, i))

(***************************************************************************)
(* C13.  The error callback does not influence control flow.  From any     *)
(* reachable state, every call of add_argument, add_flag, get_arg and      *)
(* parse made on the parser with an error callback set and on the same     *)
(* parser with none returns the same value and leaves the same registry,   *)
(* alias index, cells, unmatched list and program name; the two differ     *)
(* only in the invocations of the error callback, of which the parser      *)
(* without a callback makes none.  (Both parsers are reachable, so by      *)
(* induction the same holds for every sequence of calls.)                  *)
(***************************************************************************)
\* s with the error callback set or not
WithErrorCb(s, cb) == [s EXCEPT !.error_cb_ = cb]

\* s without what the error callback accounts for
Silenced(s) ==
    [s EXCEPT !.error_cb_ = FALSE,
              !.cb_log = SelectSeq(@, LAMBDA e : e[1] # "error_cb")]

\* The outcomes a and b of one call with and without the callback agree
SameButErrorCalls(a, b) ==
    /\ Silenced(a) = Silenced(b)
    /\ ErrorCalls(b.cb_log) = <<>>

C13_ErrorCbDoesNotSteer ==
    pc = "idle" =>
        LET on == WithErrorCb(enter(Self), TRUE)
            off == WithErrorCb(enter(Self), FALSE)
        IN  /\ \A arg \in AliasSets, d \in Descriptions, required \in BOOLEAN :
                  /\ \A dv \in ArgDefaults :
                        SameButErrorCalls(
                            add_argument(on, arg, d, dv, required),
                            add_argument(off, arg, d, dv, required))
                  /\ \A dv \in FlagDefaults :
                        SameButErrorCalls(
                            add_flag(on, arg, d, dv, required),
                            add_flag(off, arg, d, dv, required))
            /\ \A argv \in Argvs :
                  SameButErrorCalls(parse(on, argv), parse(off, argv))
            /\ \A T \in {"bool", "string"}, arg \in Tokens :
                  {Silenced(r) : r \in get_arg(on, T, arg)} =
                  {Silenced(r) : r \in get_arg(off, T, arg)}

\* A parse has failed for a pending required definition on a parser with
\* no error callback: false was returned and nothing was invoked.
C13_Witness ==
    /\ pc = "idle"
    /\ ~error_cb_
    /\ ret = [op |-> "parse", val |-> FALSE]
    /\ cb_log = <<>>
    /\ unmatchd_args_ = <<"prog", "--bool">>
    /\ \E k \in 1..Len(argument_defs_) : pending(Self, argument_defs_[k])

(***************************************************************************)
(* C14.  Required tracking is one-way and never reset.  In every step, no  *)
(* cell is removed, and a cell whose req_and_found changes goes from false *)
(* to true in an iteration of parse that matches an alias of that cell: a  *)
(* flag alias, or an option alias that has a following token.  So it never *)
(* returns to false and a non-required cell stays without a value.  Hence  *)
(* a parse called when a required definition is already found does not     *)
(* report that definition missing, whatever its tokens are, and returns    *)
(* true if it ends in the check with no other definition pending.          *)
(***************************************************************************)
\* The iteration the scan is about to run matches an alias of cell p
MatchesCell(p) ==
    /\ AtFlag \/ (AtArgument /\ i + 1 < Len(args))
    /\ arguments_map_[At(args, i)] = p

\* The definitions of s that are required and found
FoundDefs(s) ==
    {k \in 1..Len(s.argument_defs_) :
        s.heap[s.argument_defs_[k].allocated_arg].req_and_found = <<TRUE>>}

C14_RequiredTrackingOneWay ==
    [][/\ Len(heap') >= Len(heap)
       /\ \A p \in 1..Len(heap) :
             heap'[p].req_and_found # heap[p].req_and_found =>
                 /\ heap[p].req_and_found = <<FALSE>>
                 /\ heap'[p].req_and_found = <<TRUE>>
                 /\ MatchesCell(p)
       /\ AtCall =>
             LET f == parse_run(Self)
             IN  /\ \A k \in FoundDefs(Self) :
                       /\ k \in FoundDefs(f)
                       /\ MissingCall(argument_defs_[k])
                              \notin Entries(f.cb_log)
                 /\ (/\ FoundDefs(Self) = {k \in 1..Len(argument_defs_) :
                                             Required(Self, argument_defs_[k])}
                     /\ "novalue" \notin Entries(Kinds(Self, args)))
                       => f.ret = [op |-> "parse", val |-> TRUE]]_vars

\* An earlier parse matched the required "-b"; the scan of a later parse of
\* ["prog"] is over, and its check of the required definitions passes.
C14_Witness ==
    /\ pc = "scan" /\ i = 1
    /\ args = <<"prog">>
    /\ unmatchd_args_ = <<"prog", "prog">>
    /\ "-b" \in DOMAIN arguments_map_
    /\ CellOf(Self, "-b").req_and_found = <<TRUE>>
    /\ required_check(Self).ret = [op |-> "parse", val |-> TRUE]

(***************************************************************************)
(* C15.  When the scan has completed and one or several required           *)
(* definitions are pending, the check of the required definitions returns  *)
(* false and, if the error callback is set, the callback has been invoked  *)
(* exactly once in this parse: with MISSING_REQUIRED_ARGUMENT and the      *)
(* aliases of the pending definition that was registered earliest.  The    *)
(* other pending definitions are not reported, and nothing else changes.   *)
(***************************************************************************)
\* The positions in the registry of the pending definitions of s
PendingDefs(s) ==
    {k \in 1..Len(s.argument_defs_) : pending(s, s.argument_defs_[k])}

C15_OnlyEarliestPendingReported ==
    (pc = "scan" /\ i >= Len(args) /\ PendingDefs(Self) # {}) =>
        LET f == required_check(Self)
            first == CHOOSE m \in PendingDefs(Self) :
                        \A n \in PendingDefs(Self) : m <= n
        IN  /\ f.ret = [op |-> "parse", val |-> FALSE]
            /\ f.pc = "idle"
            /\ ErrorCalls(f.cb_log) =
                  IF error_cb_ THEN <<MissingCall(argument_defs_[first])>>
                  ELSE <<>>
            /\ f.heap = heap
            /\ f.unmatchd_args_ = unmatchd_args_
            /\ f.argument_defs_ = argument_defs_
            /\ f.arguments_map_ = arguments_map_

\* {"-b"} was registered before {"--bool", "-h"}, both required and both
\* pending at the end of a parse: only {"-b"} was reported, although
\* "--bool" comes first in the order of the alias strings.
C15_Witness ==
    /\ pc = "idle"
    /\ ret = [op |-> "parse", val |-> FALSE]
    /\ Len(argument_defs_) = 2
    /\ argument_defs_[1].args = {"-b"}
    /\ argument_defs_[2].args = {"--bool", "-h"}
    /\ PendingDefs(Self) = {1, 2}
    /\ cb_log = <<ErrorCall(MISSING_REQUIRED_ARGUMENT, <<"-b", " ">>)>>

(***************************************************************************)
(* C16.  A help token does not end or shorten a parse.  The parse of an    *)
(* argv returns the same value, leaves the same cells and unmatched list   *)
(* and makes the same error callback invocations as the parse of that argv *)
(* without its help tokens.  The check of the required definitions runs    *)
(* after the scan also when help was written: unless the scan ended at an  *)
(* option without a value, the parse returns true exactly if no required   *)
(* definition is pending at the end, and otherwise the error callback (if  *)
(* set) is invoked with MISSING_REQUIRED_ARGUMENT.  Every invocation of    *)
(* the post-help callback in a parse comes before any invocation of the    *)
(* error callback with MISSING_REQUIRED_ARGUMENT.                          *)
(***************************************************************************)
\* argv from position k (1-based) on, without the tokens at "help" positions
RECURSIVE WithoutHelpFrom(_, _, _)
WithoutHelpFrom(s, argv, k) ==
    IF k > Len(argv) THEN <<>>
    ELSE (IF k <= Len(Kinds(s, argv)) /\ Kinds(s, argv)[k] = "help"
          THEN <<>> ELSE <<argv[k]>>)
         \o WithoutHelpFrom(s, argv, k + 1)

\* No invocation of the post-help callback follows a report of a missing
\* required definition
PostHelpBeforeMissing(log) ==
    \A m, n \in 1..Len(log) :
        (IsMissingCall(log[m]) /\ log[n] = PostHelpCall) => n < m

C16_HelpDoesNotEndParse ==
    AtCall =>
        LET f == parse_run(Self)
            g == parse_run([Self EXCEPT
                               !.args = WithoutHelpFrom(Self, args, 1)])
        IN  /\ f.ret = g.ret
            /\ f.heap = g.heap
            /\ f.unmatchd_args_ = g.unmatchd_args_
            /\ ErrorCalls(f.cb_log) = ErrorCalls(g.cb_log)
            /\ HelpEntries(g.cb_log) = <<>>
            /\ "novalue" \notin Entries(Kinds(Self, args)) =>
                  /\ f.ret.val = (PendingDefs(f) = {})
                  /\ (PendingDefs(f) # {} /\ error_cb_) =>
                        IsMissingCall(f.cb_log[Len(f.cb_log)])
            /\ PostHelpBeforeMissing(f.cb_log)

\* The parse of ["prog", "-h"] with the required "-b" pending has written
\* the help text and invoked the post-help callback, and then failed in the
\* check of the required definitions.
C16_Witness ==
    /\ pc = "idle"
    /\ ret = [op |-> "parse", val |-> FALSE]
    /\ auto_help_enable_ /\ post_help_cb_ /\ error_cb_
    /\ Len(cb_log) = 4
    /\ cb_log[1] = HelpText /\ cb_log[2] = PostHelpCall
    /\ cb_log[4] = ErrorCall(MISSING_REQUIRED_ARGUMENT, <<"-b", " ">>)
    /\ unmatchd_args_ = <<"prog">>

(***************************************************************************)
(* C17.  A call of parse never ends in another way than by returning, and  *)
(* it returns true if and only if (1) its scan does not reach an option    *)
(* alias that is the last token and (2) every required definition was      *)
(* found before the call or is matched by the scan.  So unmatched tokens    *)
(* and help tokens alone never make it return false.  It invokes the error *)
(* callback at most once per call, and not at all when it returns true.    *)
(***************************************************************************)
\* Every required definition of s is found already or matched in argv
RequiredSatisfiedBy(s, argv) ==
    \A k \in 1..Len(s.argument_defs_) :
        Required(s, s.argument_defs_[k]) =>
            \/ k \in FoundDefs(s)
            \/ MatchedAt(s, argv, s.argument_defs_[k]) # {}

C17_ParseTrueIffScanAndRequiredOk ==
    /\ pc \in {"idle", "scan"}
    /\ AtCall =>
        LET f == parse_run(Self)
            kinds == Entries(Kinds(Self, args))
        IN  /\ f.pc = "idle"
            /\ f.ret.op = "parse" /\ f.ret.val \in BOOLEAN
            /\ f.ret.val <=> (/\ "novalue" \notin kinds
                              /\ RequiredSatisfiedBy(Self, args))
            /\ (kinds \subseteq {"help", "unmatched"}
                  /\ PendingDefs(Self) = {}) => f.ret.val
            /\ Len(ErrorCalls(f.cb_log)) <= 1
            /\ f.ret.val => ErrorCalls(f.cb_log) = <<>>

\* A parse that wrote the help text and left "--bool" unmatched returned
\* true, on a parser with a definition that is not pending.
C17_Witness ==
    /\ pc = "idle"
    /\ ret = [op |-> "parse", val |-> TRUE]
    /\ HelpText \in Entries(cb_log)
    /\ unmatchd_args_ = <<"prog", "--bool">>
    /\ Len(argument_defs_) = 1

(***************************************************************************)
(* C18.  Registry and index are consistent in every reachable state: the   *)
(* keys of arguments_map_ are the union of the alias sets of the           *)
(* definitions in argument_defs_, the alias sets of distinct definitions   *)
(* are disjoint, every alias maps to the cell of the definition that       *)
(* declares it, and distinct definitions have distinct cells.  The         *)
(* registry is in the order of the successful registrations: a step        *)
(* changes argument_defs_ or arguments_map_ only by a registration that    *)
(* returns true, which appends one definition and adds exactly its aliases *)
(* as keys.  No step of parse and no get_arg changes either.               *)
(***************************************************************************)
RegistryConsistent ==
    /\ DOMAIN arguments_map_ =
          UNION {argument_defs_[k].args : k \in 1..Len(argument_defs_)}
    /\ \A k, m \in 1..Len(argument_defs_) :
          k # m =>
              /\ argument_defs_[k].args \cap argument_defs_[m].args = {}
              /\ argument_defs_[k].allocated_arg #
                    argument_defs_[m].allocated_arg
    /\ \A k \in 1..Len(argument_defs_) :
          /\ argument_defs_[k].allocated_arg \in 1..Len(heap)
          /\ \A a \in argument_defs_[k].args :
                arguments_map_[a] = argument_defs_[k].allocated_arg

\* What a step may do to the registry and the index
RegistryStep ==
    \/ UNCHANGED <<argument_defs_, arguments_map_>>
    \/ /\ pc = "idle"
       /\ ret' = [op |-> "add_arg", val |-> TRUE]
       /\ Len(argument_defs_') = Len(argument_defs_) + 1
       /\ SubSeq(argument_defs_', 1, Len(argument_defs_)) = argument_defs_
       /\ LET def == argument_defs_'[Len(argument_defs_')]
          IN  /\ def.args \cap DOMAIN arguments_map_ = {}
              /\ DOMAIN arguments_map_' = DOMAIN arguments_map_ \cup def.args
              /\ \A a \in DOMAIN arguments_map_ :
                    arguments_map_'[a] = arguments_map_[a]

C18_RegistryIndexConsistent ==
    []RegistryConsistent /\ [][RegistryStep]_vars

\* Two definitions are registered, {"-b"} before {"--bool", "-h"}, and a
\* parse has matched both and returned true.
C18_Witness ==
    /\ pc = "idle"
    /\ ret = [op |-> "parse", val |-> TRUE]
    /\ Len(argument_defs_) = 2
    /\ argument_defs_[1].args = {"-b"}
    /\ argument_defs_[2].args = {"--bool", "-h"}
    /\ DOMAIN arguments_map_ = {"-b", "--bool", "-h"}
    /\ heap[1].value # "" /\ heap[2].value # ""

(***************************************************************************)
(* C19.  The stored text of a definition is the text of its default until  *)
(* an alias of it is matched, and from then on the value written by the    *)
(* most recent match over all parse calls.  A registration stores the text *)
(* of the default.  A step changes the stored text of a cell only if it is *)
(* an iteration of parse that matches an alias of the cell, and then to    *)
(* "true" for a flag and to the following token for an option; no call of  *)
(* parse resets it.  So after a parse, a definition its scan did not match *)
(* has the text it had before, and a matched one the text written at the   *)
(* last position its scan matched it: the last occurrence wins.            *)
(***************************************************************************)
\* What the scan writes into the cell of def where it matches it at
\* position k (1-based) of argv
WrittenAt(s, argv, def, k) ==
    IF s.heap[def.allocated_arg].is_flag THEN "true" ELSE argv[k + 1]

\* s is a parser on which parse has been called and is about to scan s.args
LastMatchWins(s) ==
    LET f == parse_run(s)
    IN  \A d \in 1..Len(s.argument_defs_) :
            LET def == s.argument_defs_[d]
                M == MatchedAt(s, s.args, def)
            IN  f.heap[def.allocated_arg].value =
                    IF M = {} THEN s.heap[def.allocated_arg].value
                    ELSE WrittenAt(s, s.args, def,
                                   CHOOSE k \in M : \A m \in M : m <= k)

\* argv in which one token occurs twice, followed by "-h" the first time
\* and by another token the second time
RepeatArgvs ==
    {<<p, a, "-h", a, v2>> : p \in ProgNames, a \in Tokens,
                             v2 \in Tokens \ {"-h"}}

StoredTextState ==
    /\ AtCall => LastMatchWins(Self)
    /\ pc = "idle" =>
          /\ \A argv \in RepeatArgvs :
                LastMatchWins(parse_begin(enter(Self), argv))
          /\ \A arg \in AliasSets : \A r \in AddCalls(arg) :
                r.ret.val =>
                    LET def == r.argument_defs_[Len(r.argument_defs_)]
                    IN  /\ r.heap[def.allocated_arg].value = def.default_value
                        /\ def.default_value \in
                              {to_string(dv) : dv \in ArgDefaults} \cup
                              {to_string([t |-> "bool", v |-> dv]) :
                                  dv \in FlagDefaults}

StoredTextStep ==
    \A p \in 1..Len(heap) :
        heap'[p].value # heap[p].value =>
            /\ MatchesCell(p)
            /\ heap'[p].value = IF heap[p].is_flag THEN "true"
                                ELSE At(args, i + 1)

C19_StoredTextIsLastMatch ==
    []StoredTextState /\ [][StoredTextStep]_vars

\* A first parse stored "--bool" for the option "-b"; the scan of a later
\* parse of ["prog"], which does not mention "-b", is over and the text is
\* still "--bool", not the default.
C19_Witness ==
    /\ pc = "scan" /\ i = 1
    /\ args = <<"prog">>
    /\ unmatchd_args_ = <<"prog", "prog">>
    /\ Len(argument_defs_) = 1
    /\ argument_defs_[1].args = {"-b"}
    /\ argument_defs_[1].default_value = ""
    /\ heap[1].value = "--bool"

(***************************************************************************)
(* C20.  A parse that returns false is not rolled back.  Whether it fails  *)
(* at an option without a value or in the check of the required            *)
(* definitions, afterwards the program name is argv[0], the unmatched list *)
(* holds in addition the tokens its scan left unmatched, every definition  *)
(* its scan matched has the text written by the last match and, if         *)
(* required, is found, and get_program_name, get_unmatched_args and        *)
(* get_arg return these values.                                            *)
(***************************************************************************)
\* s is a parser on which parse has been called and is about to scan s.args
EffectsPersist(s) ==
    LET f == parse_run(s)
    IN  /\ get_program_name(f) = s.args[1]
        /\ get_unmatched_args(f) =
              s.unmatchd_args_ \o UnmatchedFrom(s, s.args, 1)
        /\ \A d \in 1..Len(s.argument_defs_) :
              LET def == s.argument_defs_[d]
                  M == MatchedAt(s, s.args, def)
              IN  M # {} =>
                      /\ \A a \in def.args :
                            GetArgValues(f, "string", a) =
                                {<<WrittenAt(s, s.args, def,
                                      CHOOSE k \in M : \A m \in M : m <= k)>>}
                      /\ Required(s, def) => d \in FoundDefs(f)

C20_FailedParseKeepsEffects ==
    (AtCall /\ ~parse_run(Self).ret.val) => EffectsPersist(Self)

\* The parse of ["prog", "--bool", "-b"] has failed at the option "-b": the
\* flag "--bool" matched before it is stored and found, and the program
\* name is captured and unmatched.
C20_Witness ==
    /\ pc = "idle"
    /\ ret = [op |-> "parse", val |-> FALSE]
    /\ cb_log = <<ErrorCall(EXPECTED_VALUE, <<"-b">>)>>
    /\ program_name_ = "prog"
    /\ unmatchd_args_ = <<"prog">>
    /\ {"-b", "--bool"} \subseteq DOMAIN arguments_map_
    /\ CellOf(Self, "--bool").value = "true"
    /\ CellOf(Self, "--bool").req_and_found = <<TRUE>>
    /\ CellOf(Self, "-b").value = ""

=============================================================================
